---- MODULE Spec2Model ----
(***************************************************************************)
(* Model of the ragie-cli import orchestration (cmd/import.go) against a   *)
(* remote document service (pkg/client/client.go).                         *)
(*                                                                         *)
(* Strings are sequences of symbols.  A symbol is a short string treated   *)
(* as one indivisible character: " " and "\n" are white space, "---" is    *)
(* the front-matter delimiter, ":" the key/value separator, ".md" a file   *)
(* suffix; every other symbol is a visible character.                      *)
(***************************************************************************)
EXTENDS Integers, Sequences, FiniteSets, TLC

\* command          : the command run, "import" or "clear"
\* importer, config : the import type and the flags of the command line
\* size, items       : the number of entries of the source, and the entries
\*                     the loop has read so far, in order
\* remote, nextId    : the documents of the service, and the id it assigns next
\* run, cur, pc      : the run of the command, the index of the entry in the
\*                     loop body, and the position in the code
\* externalID, docExists, resp, content : locals of the loop body
\* calls, msg        : the calls issued for the current entry, its outcome
\* before, start     : the documents before the entry, and at each run's start
\* stats, failures   : calls counted over the run, failures over all runs
\* knobs, built, field : the four mode flags, the mode built from them and
\*                     the mode field of the upload request
\* locked            : ids of the documents the service refuses to delete
VARIABLES command, importer, config, size, items, remote, nextId, run, cur, pc,
          externalID, docExists, resp, content, calls, msg, before, start,
          stats, failures, knobs, built, field, locked

vars == <<command, importer, config, size, items, remote, nextId, run, cur, pc,
          externalID, docExists, resp, content, calls, msg, before, start,
          stats, failures, knobs, built, field, locked>>

\* ------------------------------------------------------------------------
\* Bounds of the model
\* ------------------------------------------------------------------------
MaxItems == 2
MaxPre == 2
MaxRuns == 2
MaxFailures == 1
\* the page size the service applies when a list request names none
DefaultPageSize == 1

\* ------------------------------------------------------------------------
\* Program constants
\* ------------------------------------------------------------------------
ExistsPageSize == 1
ReplacePageSize == 100
ClearPageSize == 0

\* ------------------------------------------------------------------------
\* Strings
\* ------------------------------------------------------------------------
EmptyString == << >>

IsSpace(ch) == ch \in {" ", "\n"}

RECURSIVE TrimLeft(_)
TrimLeft(s) ==
    IF s = << >> THEN << >>
    ELSE IF IsSpace(Head(s)) THEN TrimLeft(Tail(s)) ELSE s

RECURSIVE TrimRight(_)
TrimRight(s) ==
    IF s = << >> THEN << >>
    ELSE IF IsSpace(s[Len(s)]) THEN TrimRight(SubSeq(s, 1, Len(s) - 1)) ELSE s

TrimSpace(s) == TrimRight(TrimLeft(s))

\* strings.Trim(s, cutset) for a one-symbol cutset
RECURSIVE TrimLeftSym(_, _)
TrimLeftSym(s, sym) ==
    IF s = << >> THEN << >>
    ELSE IF Head(s) = sym THEN TrimLeftSym(Tail(s), sym) ELSE s

RECURSIVE TrimRightSym(_, _)
TrimRightSym(s, sym) ==
    IF s = << >> THEN << >>
    ELSE IF s[Len(s)] = sym THEN TrimRightSym(SubSeq(s, 1, Len(s) - 1), sym)
    ELSE s

Trim(s, sym) == TrimRightSym(TrimLeftSym(s, sym), sym)

\* index of the first occurrence of sym in s, 0 when there is none
Index(s, sym) ==
    IF \E i \in 1..Len(s) : s[i] = sym
    THEN CHOOSE i \in 1..Len(s) : s[i] = sym /\ \A j \in 1..(i - 1) : s[j] # sym
    ELSE 0

Contains(s, sym) == Index(s, sym) # 0

\* strings.SplitN(s, sep, n) for n >= 1 and a one-symbol separator
RECURSIVE SplitN(_, _, _)
SplitN(s, sep, n) ==
    IF n = 1 \/ Index(s, sep) = 0 THEN << s >>
    ELSE << SubSeq(s, 1, Index(s, sep) - 1) >>
         \o SplitN(SubSeq(s, Index(s, sep) + 1, Len(s)), sep, n - 1)

\* strings.Split(s, sep): no limit on the number of parts
Split(s, sep) == SplitN(s, sep, Len(s) + 1)

\* strings.Join(parts, sep)
RECURSIVE Join(_, _)
Join(parts, sep) ==
    IF parts = << >> THEN << >>
    ELSE IF Len(parts) = 1 THEN parts[1]
    ELSE parts[1] \o sep \o Join(Tail(parts), sep)

HasSuffix(s, sym) == Len(s) > 0 /\ s[Len(s)] = sym

\* filepath.ToSlash: the separator already is "/" on the modelled platform,
\* where the function returns its argument
ToSlash(path) == path

\* ------------------------------------------------------------------------
\* Source readers: what each importer derives from one entry of its source
\* ------------------------------------------------------------------------
Importers == {"youtube", "wordpress", "readmeio", "files", "zip"}

TextImporters == {"youtube", "wordpress", "readmeio"}

\* One element of the YouTube JSON array.  A field that is absent or not a
\* string reads as the empty string (the failed type assertion yields "");
\* a caption is a record telling whether the JSON value is a string.
YouTubeItems ==
    { [videoId |-> <<"a">>, title |-> <<"T">>,
       captions |-> << [isString |-> TRUE, str |-> << >>],
                       [isString |-> FALSE, str |-> << >>],
                       [isString |-> TRUE, str |-> <<"c">>] >>],
      [videoId |-> <<"a">>, title |-> << >>,
       captions |-> << [isString |-> TRUE, str |-> << >>] >>],
      [videoId |-> <<"b">>, title |-> <<" ">>, captions |-> << >>],
      [videoId |-> << >>, title |-> <<"T">>,
       captions |-> << [isString |-> TRUE, str |-> <<"c">>] >>] }

\* One <post> element of the WordPress export; an absent child element
\* reads as the empty string
WordPressItems ==
    { [url |-> <<"a">>, title |-> <<"T">>, description |-> <<"d">>,
       content |-> <<"c">>],
      [url |-> <<"a">>, title |-> << >>, description |-> << >>,
       content |-> << >>],
      [url |-> <<"b">>, title |-> << >>, description |-> << >>,
       content |-> <<"c">>],
      [url |-> << >>, title |-> <<"T">>, description |-> << >>,
       content |-> <<"c">>] }

\* One entry of the readme.io archive
ReadmeIOFiles ==
    { [name |-> <<"a", ".md">>,
       content |-> <<"---", "\n", "title", ":", "\"", "T", "\"", "\n",
                     "slug", ":", " ", "a", "\n", "---", "\n", "x">>],
      [name |-> <<"b", ".md">>,
       content |-> <<"---", "\n", "slug", ":", "b", "\n", "---", "\n">>],
      [name |-> <<"a", ".md">>, content |-> <<" ", "\n">>],
      [name |-> <<"c", ".md">>, content |-> <<"x">>],
      [name |-> <<"a", ".txt">>, content |-> <<"x">>] }

\* One path visited by filepath.Walk (or the single file given)
LocalFiles ==
    { [relPath |-> <<"a">>, isDir |-> FALSE, content |-> <<"x">>],
      [relPath |-> <<"a">>, isDir |-> FALSE, content |-> <<" ", "\n">>],
      [relPath |-> <<"b">>, isDir |-> FALSE, content |-> <<"x", " ">>],
      [relPath |-> <<"d">>, isDir |-> TRUE, content |-> << >>] }

\* One entry of a zip archive
ZipEntries ==
    { [name |-> <<"a">>, isDir |-> FALSE, content |-> <<"x">>],
      [name |-> <<"a">>, isDir |-> FALSE, content |-> << >>],
      [name |-> <<"b">>, isDir |-> FALSE, content |-> <<" ", "x">>],
      [name |-> <<"d", "/">>, isDir |-> TRUE, content |-> << >>] }

SourceItems(imp) ==
    CASE imp = "youtube" -> YouTubeItems
      [] imp = "wordpress" -> WordPressItems
      [] imp = "readmeio" -> ReadmeIOFiles
      [] imp = "files" -> LocalFiles
      [] imp = "zip" -> ZipEntries

\* ImportYouTube: title, a blank line, then every non-empty string caption
RECURSIVE WriteCaptions(_)
WriteCaptions(captions) ==
    IF captions = << >> THEN << >>
    ELSE (IF Head(captions).isString /\ Head(captions).str # << >>
          THEN Head(captions).str \o <<"\n">> ELSE << >>)
         \o WriteCaptions(Tail(captions))

\* the title followed by a single line break
YouTubeContent_OneNewline(item) ==
    (IF item.title # << >> THEN item.title \o <<"\n">> ELSE << >>)
    \o WriteCaptions(item.captions)

YouTubeContent(item) ==
    (IF item.title # << >> THEN item.title \o <<"\n", "\n">> ELSE << >>)
    \o WriteCaptions(item.captions)

\* ImportWordPress: title, description and content joined by blank lines
WordPressData(item) ==
    Join(<< item.title, item.description, item.content >>, <<"\n", "\n">>)

\* ImportReadmeIO: front matter between the first two "---"
ReadmeParts(contentStr) == SplitN(contentStr, "---", 3)

PutMeta(metadata, key, value) ==
    [k \in DOMAIN metadata \cup {key} |-> IF k = key THEN value ELSE metadata[k]]

RECURSIVE ParseFrontmatter(_, _)
ParseFrontmatter(metadata, lines) ==
    IF lines = << >> THEN metadata
    ELSE ParseFrontmatter(
            IF Contains(Head(lines), ":")
            THEN PutMeta(metadata,
                         TrimSpace(SplitN(Head(lines), ":", 2)[1]),
                         Trim(TrimSpace(SplitN(Head(lines), ":", 2)[2]), "\""))
            ELSE metadata,
            Tail(lines))

ReadmeMetadata(contentStr) ==
    IF Len(ReadmeParts(contentStr)) >= 3
    THEN ParseFrontmatter([k \in {<<"sourceType">>} |-> <<"readmeio">>],
                          Split(ReadmeParts(contentStr)[2], "\n"))
    ELSE [k \in {<<"sourceType">>} |-> <<"readmeio">>]

ReadmeBody(contentStr) ==
    IF Len(ReadmeParts(contentStr)) >= 3 THEN ReadmeParts(contentStr)[3]
    ELSE contentStr

ReadmeSlug(contentStr) ==
    IF <<"slug">> \in DOMAIN ReadmeMetadata(contentStr)
    THEN ReadmeMetadata(contentStr)[<<"slug">>] ELSE << >>

\* the external ID an importer derives for an entry
ExternalID(imp, item) ==
    CASE imp = "youtube" -> item.videoId
      [] imp = "wordpress" -> item.url
      [] imp = "readmeio" -> ReadmeSlug(item.content)
      [] imp = "files" -> ToSlash(item.relPath)
      [] imp = "zip" -> ToSlash(item.name)

\* the body an importer uploads for an entry
Body(imp, item) ==
    CASE imp = "youtube" -> YouTubeContent(item)
      [] imp = "wordpress" -> WordPressData(item)
      [] imp = "readmeio" -> ReadmeBody(item.content)
      [] imp = "files" -> item.content
      [] imp = "zip" -> item.content

\* ------------------------------------------------------------------------
\* Remote document service (pkg/client): documents carry an id assigned by
\* the service, the external_id of their metadata and their partition
\* ------------------------------------------------------------------------
Min(a, b) == IF a < b THEN a ELSE b

Matching(docs, ext, part) == {d \in docs : d.ext = ext /\ d.part = part}

\* the ids of a set of documents, in ascending order
RECURSIVE SortedIds(_)
SortedIds(docs) ==
    IF docs = {} THEN << >>
    ELSE LET first == CHOOSE d \in docs : \A e \in docs : d.id <= e.id
         IN << first.id >> \o SortedIds(docs \ {first})

\* GET /documents with an external_id filter: one page of at most pageSize
\* documents of the partition; the cursor of the response is never followed
ListDocuments(docs, ext, part, pageSize) ==
    SubSeq(SortedIds(Matching(docs, ext, part)), 1,
           Min(pageSize, Cardinality(Matching(docs, ext, part))))

\* the documents of a partition
PartitionDocs(docs, part) == {d \in docs : d.part = part}

\* "if opts.PageSize > 0": a page size of 0 is not sent and the service
\* applies its default
PageLimit(pageSize) == IF pageSize > 0 THEN pageSize ELSE DefaultPageSize

\* GET /documents with an empty filter: one page of the partition
ListPartition(docs, part, pageSize) ==
    SubSeq(SortedIds(PartitionDocs(docs, part)), 1,
           Min(PageLimit(pageSize), Cardinality(PartitionDocs(docs, part))))

\* DELETE /documents/{id}
DeleteDocument(docs, id) == {d \in docs : d.id # id}

\* the partition of the create request lost: the document lands in the
\* default partition
CreateDocument_DefaultPartition(docs, id, ext, part) ==
    docs \cup {[id |-> id, ext |-> ext, part |-> ""]}

\* POST /documents/raw and POST /documents: the service assigns a fresh id
CreateDocument(docs, id, ext, part) ==
    docs \cup {[id |-> id, ext |-> ext, part |-> part]}

\* ------------------------------------------------------------------------
\* Decisions of the orchestration
\* ------------------------------------------------------------------------
\* the identity guard: ImportYouTube and ImportReadmeIO skip an entry whose
\* external ID is empty; the other importers have no such guard
NoIdentity(imp, item) ==
    /\ imp \in {"youtube", "readmeio"}
    /\ ExternalID(imp, item) = EmptyString

\* the empty-content guard of files and zip without the trimming
RefuseEmpty_Untrimmed(imp, item) ==
    CASE imp = "youtube" -> Len(YouTubeContent(item)) = 0
      [] imp = "wordpress" -> FALSE
      [] imp = "readmeio" -> TrimSpace(item.content) = EmptyString
      [] imp = "files" -> Len(item.content) = 0
      [] imp = "zip" -> Len(item.content) = 0

\* the empty-content guard of each importer
RefuseEmpty(imp, item) ==
    CASE imp = "youtube" -> Len(YouTubeContent(item)) = 0
      [] imp = "wordpress" -> FALSE
      [] imp = "readmeio" -> TrimSpace(item.content) = EmptyString
      [] imp = "files" -> Len(TrimSpace(item.content)) = 0
      [] imp = "zip" -> Len(TrimSpace(item.content)) = 0

\* entries an importer passes over before deriving anything from them
NotAnItem(imp, item) ==
    CASE imp = "readmeio" -> ~HasSuffix(item.name, ".md")
      [] imp \in {"files", "zip"} -> item.isDir
      [] OTHER -> FALSE

\* the skip test without the Force flag
SkipExisting_IgnoreForce(exists, cfg) == exists /\ ~cfg.replace

\* the skip test with the negation of Force lost
SkipExisting_ForceOnly(exists, cfg) == exists /\ cfg.force /\ ~cfg.replace

\* "if docExists && !config.Force && !config.Replace"
SkipExisting(exists, cfg) == exists /\ ~cfg.force /\ ~cfg.replace

\* the replace taken whenever the flag is set, a document found or not
ShouldReplace_FlagOnly(exists, cfg) == cfg.replace

\* the replace taken whenever a document exists, whatever the flag
ShouldReplace_AnyFlag(exists, cfg) == exists

\* "if config.Replace && docExists"
ShouldReplace(exists, cfg) == cfg.replace /\ exists

\* the dry-run test lost
DryRun_Ignored(cfg) == FALSE

\* "if config.DryRun" in replaceExistingDocuments and createDocument(Raw)
DryRun(cfg) == cfg.dryRun

\* the pacing test off by one
ShouldSleep_OffByOne(cfg) == cfg.delay >= 0

\* "if config.Delay > 0"
ShouldSleep(cfg) == cfg.delay > 0

\* a failed list call taken for "a document exists"
ExistsOnError_FailClosed == TRUE

\* documentExists: "if err != nil { return false }"
ExistsOnError == FALSE

\* the result test of documentExists off by one
HasDocuments_OffByOne(found) == Len(found) > 1

\* documentExists: "return len(resp.Documents) > 0"
HasDocuments(found) == Len(found) > 0

\* where the loop goes after a policy skip or a failed read: "continue"
\* ("return nil" in importFile)
AfterSkip == "loop"

\* the error of replaceExistingDocuments logged without "continue"
AfterReplaceError_FallThrough == "content"

\* where the loop goes when replaceExistingDocuments returns an error
AfterReplaceError == "loop"

\* the existence check made again once the document is created
AfterCreate_ListAgain == "exists"

\* where the loop goes once createDocument(Raw) has returned
AfterCreate == "pace"

\* the error of createDocument(Raw) returned to the caller of the importer
AfterCreateError_Abort == "failed"

\* where the loop goes when createDocument(Raw) returns an error: the error
\* is printed and the loop body goes on
AfterCreateError == "pace"

\* ------------------------------------------------------------------------
\* State
\* ------------------------------------------------------------------------
Partitions == {"p"}
Delays == {0, 2}

Configs ==
    [dryRun : BOOLEAN, delay : Delays, partition : Partitions,
     force : BOOLEAN, replace : BOOLEAN]

\* the defaults of --delay, --force and --replace
DefaultFlags(cfg) == cfg.delay = 2 /\ ~cfg.force /\ ~cfg.replace

\* n documents carrying external ID "a" in the partition of the run and one
\* carrying it in another partition
PreExisting(n, part) ==
    {[id |-> i, ext |-> <<"a">>, part |-> part] : i \in 1..n}
    \cup {[id |-> n + 1, ext |-> <<"a">>, part |-> "other"]}

NoStats == [lists |-> 0, deletes |-> 0, creates |-> 0, failed |-> 0]

Call(op, ok, ext, pageSize, ids, data) ==
    [op |-> op, ok |-> ok, ext |-> ext, part |-> config.partition,
     pageSize |-> pageSize, ids |-> ids, data |-> data]

\* ------------------------------------------------------------------------
\* The mode of a binary upload
\* ------------------------------------------------------------------------
Modes == {"", "fast", "hi_res", "all"}

StaticModes == {"", "fast", "hi_res"}

VideoModes == {"", "audio_only", "video_only", "audio_video"}

\* the four mode flags of ImportConfig: Mode, Static, Audio, Video
Knobs == [mode : Modes, static : StaticModes, audio : BOOLEAN, video : VideoModes]

\* what --audio and --video can be given on the command line, a video value
\* outside the enumeration included
FlagKnobs ==
    [mode : {""}, static : {""}, audio : BOOLEAN,
     video : VideoModes \cup {"invalid"}]

NoKnobs == [mode |-> "", static |-> "", audio |-> FALSE, video |-> ""]

\* the three shapes of the "mode any" argument: nil, a string, a *Mode
NilMode == [kind |-> "nil"]

StringMode(s) == [kind |-> "string", value |-> s]

StructuredMode(static, audio, video) ==
    [kind |-> "structured", static |-> static, audio |-> audio, video |-> video]

\* no mode has been built yet
Unbuilt == [kind |-> "unbuilt"]

\* the mode field of the multipart form: not written, written as text,
\* written as a JSON object; NotUploaded before the form is filled
NotUploaded == [state |-> "none"]

NoField == [state |-> "absent"]

TextField(s) == [state |-> "text", text |-> s]

JSONField(obj) == [state |-> "json", json |-> obj]

\* json.Marshal of a Mode: every member is omitempty, so an empty string
\* and a false flag leave no key
ModeJSON(m) ==
    (IF m.static # "" THEN {<<"static", m.static>>} ELSE {})
        \cup (IF m.audio THEN {<<"audio", "true">>} ELSE {})
        \cup (IF m.video # "" THEN {<<"video", m.video>>} ELSE {})

\* Client.CreateDocument writes the mode field unless the argument is nil:
\* a *Mode as its JSON, a string as it is
ModeField(mode) ==
    IF mode.kind = "nil" THEN NoField
    ELSE IF mode.kind = "structured" THEN JSONField(ModeJSON(mode))
    ELSE TextField(mode.value)

\* createDocument hands config.Mode, a string, to Client.CreateDocument
ModeArgument(cfg) == StringMode(cfg.mode)

\* only the coarse mode is given
OnlyMode(cfg) == cfg.static = "" /\ ~cfg.audio /\ cfg.video = ""

\* the bare-string fast path taken for "all" as well
FastPath_All(cfg) == OnlyMode(cfg) /\ cfg.mode # ""

\* the bare-string fast path: a plain mode other than "all" and no
\* structured flag
FastPath(cfg) == OnlyMode(cfg) /\ cfg.mode # "" /\ cfg.mode # "all"

\* static taken from the coarse mode when staticMode is unset
StaticOf_FromMode(cfg) ==
    IF cfg.static # "" THEN cfg.static
    ELSE IF cfg.mode # "all" THEN cfg.mode ELSE ""

\* the static member of the structured result
StaticOf(cfg) == cfg.static

\* the audio member: the flag, or implied by mode "all"
AudioOf(cfg) == cfg.audio \/ cfg.mode = "all"

\* the video implied by mode "all" winning over the explicit value
VideoOf_ImpliedWins(cfg) ==
    IF cfg.mode = "all" THEN "audio_video" ELSE cfg.video

\* the video member: the explicit value, else the one implied by mode "all"
VideoOf(cfg) ==
    IF cfg.video # "" THEN cfg.video
    ELSE IF cfg.mode = "all" THEN "audio_video" ELSE ""

\* ConstructMode collapses the four flags into the argument of the upload
ConstructMode(cfg) ==
    IF FastPath(cfg) THEN StringMode(cfg.mode)
    ELSE IF StaticOf(cfg) = "" /\ ~AudioOf(cfg) /\ VideoOf(cfg) = "" THEN NilMode
    ELSE StructuredMode(StaticOf(cfg), AudioOf(cfg), VideoOf(cfg))

InitCommon ==
    /\ nextId = Cardinality(remote) + 1
    /\ run = 1
    /\ cur = 0
    /\ items = << >>
    /\ externalID = EmptyString
    /\ docExists = FALSE
    /\ resp = << >>
    /\ content = EmptyString
    /\ calls = << >>
    /\ msg = ""
    /\ before = remote
    /\ start = << remote >>
    /\ stats = NoStats
    /\ failures = 0

\* any importer, any flags, any short source, few documents on the service
InitSmall ==
    /\ command = "import"
    /\ locked = {}
    /\ pc = "start"
    /\ importer \in Importers
    /\ config \in Configs
    /\ size \in 0..MaxItems
    /\ \E n \in 0..MaxPre : remote = PreExisting(n, config.partition)

\* a replace import onto more documents than one page of the replace list
InitLarge ==
    /\ command = "import"
    /\ locked = {}
    /\ pc = "start"
    /\ importer \in Importers
    /\ config \in {c \in Configs : c.replace /\ ~c.force /\ ~c.dryRun /\ c.delay = 0}
    /\ size = 1
    /\ remote = PreExisting(ReplacePageSize + 1, config.partition)

\* the clear command, with or without --dry-run, on few documents; it has
\* no import type and reads no source, and the flags it does not read are
\* at their defaults; the service may refuse to delete one of the documents
InitClear ==
    /\ command = "clear"
    /\ pc = "list"
    /\ importer = ""
    /\ config \in {c \in Configs : DefaultFlags(c)}
    /\ size = 0
    /\ \E n \in 0..MaxPre : remote = PreExisting(n, config.partition)
    /\ locked \in {{}} \cup {{d.id} : d \in PartitionDocs(remote, config.partition)}

\* the commands above are followed with no mode flag given and no mode built
InitNoMode ==
    /\ knobs = NoKnobs
    /\ built = Unbuilt
    /\ field = NotUploaded

\* an import of one entry under every use of --audio and --video, the other
\* flags at their defaults
InitFlags ==
    /\ command = "import"
    /\ locked = {}
    /\ pc = "start"
    /\ importer \in Importers
    /\ config \in {c \in Configs : DefaultFlags(c) /\ ~c.dryRun}
    /\ size = 1
    /\ remote = {}
    /\ knobs \in FlagKnobs \ {NoKnobs}
    /\ built = Unbuilt
    /\ field = NotUploaded

Init ==
    /\ \/ (InitSmall \/ InitLarge \/ InitClear) /\ InitNoMode
       \/ InitFlags
    /\ InitCommon

\* ------------------------------------------------------------------------
\* Steps of an import run
\* ------------------------------------------------------------------------
\* the calls and reads the service and the file system may fail: at most
\* MaxFailures of them, in the first run, and a further one only within the
\* entry (or the clear pass) in which one has already failed
MayFail ==
    /\ failures < MaxFailures
    /\ run = 1
    /\ failures = 0 \/ msg = "read failed" \/ \E i \in 1..Len(calls) : ~calls[i].ok

Count(ok) == IF ok THEN 0 ELSE 1

\* what the head of the loop body decides before any network call:
\* "" when the entry goes on to the existence check
Guard(imp, item, readOk) ==
    IF NotAnItem(imp, item) THEN "skipped"
    ELSE IF imp = "readmeio" /\ ~readOk THEN "read failed"
    ELSE IF imp = "readmeio" /\ RefuseEmpty(imp, item) THEN "empty"
    ELSE IF NoIdentity(imp, item) THEN "no id"
    ELSE ""

\* what the importer decides between conflict resolution and upload
Prepare(imp, item, readOk) ==
    IF imp \in {"files", "zip"} /\ ~readOk THEN "read failed"
    ELSE IF imp # "readmeio" /\ RefuseEmpty(imp, item) THEN "empty"
    ELSE ""

\* the validation of the flags lost
Rejected_Never(cfg) == FALSE

\* "if force && replace": the two flags are mutually exclusive
Rejected(cfg) == cfg.force /\ cfg.replace

FlagsError == "--force and --replace flags cannot be used together"

AudioError == "--audio flag is only supported for 'files' and 'zip' import types"

VideoValueError == "--video must be either 'audio_only', 'video_only', or 'audio_video'"

VideoError == "--video flag is only supported for 'files' and 'zip' import types"

\* the validation of --audio and --video lost
ModeFlagsError_None(importType, k) == ""

\* the validation of --audio and --video, in the order of the checks: audio
\* on a text import, an unknown video value, video on a text import; ""
\* when the flags pass
ModeFlagsError(importType, k) ==
    IF k.audio /\ importType \notin {"files", "zip"} THEN AudioError
    ELSE IF k.video \notin VideoModes THEN VideoValueError
    ELSE IF k.video # "" /\ importType \notin {"files", "zip"} THEN VideoError
    ELSE ""

\* the ways the source of an importer fails to be read or parsed, each
\* named by the error the import function returns
OpenErrors(imp) ==
    CASE imp = "youtube" -> {"failed to read file", "failed to parse JSON"}
      [] imp = "wordpress" -> {"failed to read XML file", "empty XML file"}
      [] imp = "readmeio" -> {"failed to open ZIP file"}
      [] imp = "files" -> {"failed to access path"}
      [] imp = "zip" -> {"failed to open ZIP file"}

\* the loop entered although the source gave an error
AfterOpenError_GoOn == "loop"

\* "return fmt.Errorf(...)": the import function is left before its loop
AfterOpenError == "failed"

\* the command starts: RunE refuses --force together with --replace, then
\* a misuse of --audio or --video, before any importer runs; the importer
\* then reads and parses its source and returns an error when it cannot
RunE ==
    /\ pc = "start"
    /\ \E opened \in {""} \cup OpenErrors(importer) :
        IF Rejected(config) \/ ModeFlagsError(importer, knobs) # ""
        THEN /\ pc' = "rejected"
             /\ msg' = IF Rejected(config) THEN FlagsError
                       ELSE ModeFlagsError(importer, knobs)
        ELSE IF opened # ""
        THEN /\ pc' = AfterOpenError
             /\ msg' = opened
        ELSE /\ pc' = "loop"
             /\ msg' = msg
    /\ UNCHANGED <<locked, knobs, built, field, command, importer, config, size, items, remote, nextId, run, cur,
                   externalID, docExists, resp, content, calls, before, start,
                   stats, failures>>

\* the entry the loop reads next: any entry the first time the source is
\* read, the same entry when the source is read again
NextEntries ==
    IF cur < Len(items) THEN {items[cur + 1]} ELSE SourceItems(importer)

\* top of the for loop: take the next entry and apply the guards that come
\* before the existence check
NextItem ==
    /\ pc = "loop"
    /\ cur < size
    /\ \E item \in NextEntries, readOk \in BOOLEAN :
        /\ readOk \/ (MayFail /\ importer = "readmeio"
                              /\ ~NotAnItem(importer, item))
        /\ items' = IF cur < Len(items) THEN items ELSE Append(items, item)
        /\ cur' = cur + 1
        /\ calls' = << >>
        /\ before' = remote
        /\ msg' = Guard(importer, item, readOk)
        /\ pc' = IF Guard(importer, item, readOk) = ""
                 THEN "exists" ELSE AfterSkip
        /\ externalID' = IF Guard(importer, item, readOk) = ""
                         THEN ExternalID(importer, item)
                         ELSE EmptyString
        /\ failures' = failures + Count(readOk)
        /\ stats' = [stats EXCEPT !.failed = @ + Count(readOk)]
    /\ docExists' = FALSE
    /\ resp' = << >>
    /\ content' = EmptyString
    /\ UNCHANGED <<locked, knobs, built, field, command, importer, config, size, remote, nextId, run, start>>

\* documentExists and the two tests on its result
DocumentExists ==
    /\ pc = "exists"
    /\ \E ok \in BOOLEAN :
        /\ ok \/ MayFail
        /\ LET found == IF ok THEN ListDocuments(remote, externalID,
                                       config.partition, ExistsPageSize)
                        ELSE << >>
               exists == IF ok THEN HasDocuments(found) ELSE ExistsOnError
           IN /\ calls' = Append(calls, Call("list", ok, externalID,
                                              ExistsPageSize, found, EmptyString))
              /\ docExists' = exists
              /\ msg' = IF SkipExisting(exists, config) THEN "exists" ELSE msg
              /\ pc' = IF SkipExisting(exists, config) THEN AfterSkip
                       ELSE IF ShouldReplace(exists, config) THEN "replace"
                       ELSE "content"
        /\ failures' = failures + Count(ok)
        /\ stats' = [stats EXCEPT !.lists = @ + 1, !.failed = @ + Count(ok)]
    /\ UNCHANGED <<locked, knobs, built, field, command, importer, config, size, items, remote, nextId, run, cur,
                   externalID, resp, content, before, start>>

\* replaceExistingDocuments, up to its for loop: list the documents to delete
ReplaceList ==
    /\ pc = "replace"
    /\ \E ok \in BOOLEAN :
        /\ ok \/ MayFail
        /\ LET found == IF ok THEN ListDocuments(remote, externalID,
                                       config.partition, ReplacePageSize)
                        ELSE << >>
           IN /\ calls' = Append(calls, Call("list", ok, externalID,
                                              ReplacePageSize, found, EmptyString))
              /\ resp' = found
              /\ msg' = IF ok THEN msg ELSE "replace failed"
              /\ pc' = IF ~ok THEN AfterReplaceError
                       ELSE IF found = << >> THEN "content" ELSE "delete"
        /\ failures' = failures + Count(ok)
        /\ stats' = [stats EXCEPT !.lists = @ + 1, !.failed = @ + Count(ok)]
    /\ UNCHANGED <<locked, knobs, built, field, command, importer, config, size, items, remote, nextId, run, cur,
                   externalID, docExists, content, before, start>>

\* one iteration of the for loop of replaceExistingDocuments
DeleteExisting ==
    /\ pc = "delete"
    /\ resp # << >>
    /\ IF DryRun(config)
       THEN /\ resp' = Tail(resp)
            /\ pc' = IF Tail(resp) = << >> THEN "content" ELSE "delete"
            /\ UNCHANGED <<remote, calls, msg, failures, stats>>
       ELSE \E ok \in BOOLEAN :
            /\ ok \/ MayFail
            /\ calls' = Append(calls, Call("delete", ok, externalID, 0,
                                           << Head(resp) >>, EmptyString))
            /\ remote' = IF ok THEN DeleteDocument(remote, Head(resp)) ELSE remote
            /\ resp' = IF ok THEN Tail(resp) ELSE resp
            /\ msg' = IF ok THEN msg ELSE "replace failed"
            /\ pc' = IF ~ok THEN AfterReplaceError
                     ELSE IF Tail(resp) = << >> THEN "content" ELSE "delete"
            /\ failures' = failures + Count(ok)
            /\ stats' = [stats EXCEPT !.deletes = @ + 1, !.failed = @ + Count(ok)]
    /\ UNCHANGED <<locked, knobs, built, field, command, importer, config, size, items, nextId, run, cur, externalID,
                   docExists, content, before, start>>

\* read or assemble the body of the entry and apply the empty-content guard
ReadContent ==
    /\ pc = "content"
    /\ \E readOk \in BOOLEAN :
        /\ readOk \/ (MayFail /\ importer \in {"files", "zip"})
        /\ msg' = Prepare(importer, items[cur], readOk)
        /\ pc' = IF Prepare(importer, items[cur], readOk) = ""
                 THEN "create" ELSE AfterSkip
        /\ content' = IF Prepare(importer, items[cur], readOk) = ""
                      THEN Body(importer, items[cur]) ELSE EmptyString
        /\ failures' = failures + Count(readOk)
        /\ stats' = [stats EXCEPT !.failed = @ + Count(readOk)]
    /\ UNCHANGED <<locked, knobs, built, field, command, importer, config, size, items, remote, nextId, run, cur,
                   externalID, docExists, resp, calls, before, start>>

\* createDocumentRaw (text importers) and createDocument (files, zip)
CreateDoc ==
    /\ pc = "create"
    /\ IF DryRun(config)
       THEN /\ msg' = "would save"
            /\ pc' = AfterCreate
            /\ UNCHANGED <<remote, nextId, calls, failures, stats>>
       ELSE \E ok \in BOOLEAN :
            /\ ok \/ MayFail
            /\ calls' = Append(calls, Call("create", ok, externalID, 0,
                                  IF ok THEN << nextId >> ELSE << >>, content))
            /\ remote' = IF ok THEN CreateDocument(remote, nextId, externalID,
                                                   config.partition)
                         ELSE remote
            /\ nextId' = IF ok THEN nextId + 1 ELSE nextId
            /\ msg' = IF ok THEN "saved" ELSE "import failed"
            /\ pc' = IF ok THEN AfterCreate ELSE AfterCreateError
            /\ failures' = failures + Count(ok)
            /\ stats' = [stats EXCEPT !.creates = @ + 1, !.failed = @ + Count(ok)]
    /\ UNCHANGED <<locked, knobs, built, field, command, importer, config, size, items, run, cur, externalID, docExists,
                   resp, content, before, start>>

\* the pacing step at the end of the loop body
Pace ==
    /\ pc = "pace"
    /\ calls' = IF ShouldSleep(config)
                THEN Append(calls, Call("sleep", TRUE, externalID, 0, << >>,
                                        EmptyString))
                ELSE calls
    /\ pc' = "loop"
    /\ UNCHANGED <<locked, knobs, built, field, command, importer, config, size, items, remote, nextId, run, cur,
                   externalID, docExists, resp, content, msg, before, start,
                   stats, failures>>

\* the loop is over: "return nil"
Return ==
    /\ pc = "loop"
    /\ cur = size
    /\ pc' = "done"
    /\ UNCHANGED <<locked, knobs, built, field, command, importer, config, size, items, remote, nextId, run, cur,
                   externalID, docExists, resp, content, calls, msg, before,
                   start, stats, failures>>

\* the same import is run once more on the same source, with the flags at
\* their defaults, after a run in which nothing failed: the way the
\* integration tests repeat an import
Rerun ==
    /\ command = "import"
    /\ pc = "done"
    /\ run < MaxRuns
    /\ failures = 0
    /\ DefaultFlags(config)
    /\ run' = run + 1
    /\ cur' = 0
    /\ pc' = "start"
    /\ externalID' = EmptyString
    /\ docExists' = FALSE
    /\ resp' = << >>
    /\ content' = EmptyString
    /\ calls' = << >>
    /\ msg' = ""
    /\ before' = remote
    /\ start' = Append(start, remote)
    /\ stats' = NoStats
    /\ UNCHANGED <<locked, knobs, built, field, command, importer, config, size, items, remote, nextId, failures>>

\* the emptiness test of the clear loop off by one
ClearDone_OffByOne(page) == Len(page) <= 1

\* clear: "if len(resp.Documents) == 0 { break }"
ClearDone(page) == Len(page) = 0

\* clear, top of the outer loop: list one page of the partition; an error
\* is returned, an empty page ends the command
ClearList ==
    /\ command = "clear"
    /\ pc = "list"
    /\ \E ok \in BOOLEAN :
        /\ ok \/ MayFail
        /\ LET found == IF ok THEN ListPartition(remote, config.partition,
                                                 ClearPageSize)
                        ELSE << >>
           IN /\ calls' = << Call("list", ok, EmptyString, ClearPageSize, found,
                                  EmptyString) >>
              /\ resp' = found
              /\ msg' = IF ok THEN msg ELSE "failed to list documents"
              /\ pc' = IF ~ok THEN "failed"
                       ELSE IF ClearDone(found) THEN "done" ELSE "sweep"
        /\ failures' = failures + Count(ok)
        /\ stats' = [stats EXCEPT !.failed = @ + Count(ok)]
    /\ UNCHANGED <<locked, knobs, built, field, command, importer, config, size, items, remote, nextId, run,
                   cur, externalID, docExists, content, before, start>>

\* clear, one iteration of the inner loop: announce the document in a dry
\* run, delete it otherwise; a failed delete is printed and the loop goes on.
\* The delete of a locked document fails every time; those calls are
\* logged in calls but left out of the counters, which would grow for ever
ClearSweep ==
    /\ command = "clear"
    /\ pc = "sweep"
    /\ resp # << >>
    /\ IF DryRun(config)
       THEN /\ msg' = "would delete"
            /\ UNCHANGED <<remote, calls, failures, stats>>
       ELSE IF Head(resp) \in locked
       THEN /\ calls' = Append(calls, Call("delete", FALSE, EmptyString, 0,
                                           << Head(resp) >>, EmptyString))
            /\ msg' = "error deleting document"
            /\ UNCHANGED <<remote, failures, stats>>
       ELSE \E ok \in BOOLEAN :
            /\ ok \/ MayFail
            /\ calls' = Append(calls, Call("delete", ok, EmptyString, 0,
                                           << Head(resp) >>, EmptyString))
            /\ remote' = IF ok THEN DeleteDocument(remote, Head(resp)) ELSE remote
            /\ msg' = IF ok THEN "deleted" ELSE "error deleting document"
            /\ failures' = failures + Count(ok)
            /\ stats' = [stats EXCEPT !.deletes = @ + 1, !.failed = @ + Count(ok)]
    /\ resp' = Tail(resp)
    /\ pc' = IF Tail(resp) = << >> THEN "list" ELSE "sweep"
    /\ UNCHANGED <<locked, knobs, built, field, command, importer, config, size, items, nextId, run, cur,
                   externalID, docExists, content, before, start>>

Next ==
    \/ ClearList
    \/ ClearSweep
    \/ RunE
    \/ NextItem
    \/ DocumentExists
    \/ ReplaceList
    \/ DeleteExisting
    \/ ReadContent
    \/ CreateDoc
    \/ Pace
    \/ Return
    \/ Rerun

Spec == Init /\ [][Next]_vars

\* the clear command is a single thread that keeps running until it returns
FairSpec == Spec /\ WF_vars(ClearList \/ ClearSweep)

\* ------------------------------------------------------------------------
\* The mode constructor and the mode field, over every setting of the flags
\* ------------------------------------------------------------------------
\* a files or zip import about to upload one entry, under any mode flags
InitMode ==
    /\ command = "import"
    /\ locked = {}
    /\ pc = "create"
    /\ importer \in {"files", "zip"}
    /\ config \in {c \in Configs : DefaultFlags(c) /\ ~c.dryRun}
    /\ size = 0
    /\ remote = {}
    /\ InitCommon
    /\ knobs \in Knobs
    /\ built = Unbuilt
    /\ field = NotUploaded

\* ConstructMode is applied to the flags
BuildMode ==
    /\ built = Unbuilt
    /\ built' = ConstructMode(knobs)
    /\ UNCHANGED <<locked, knobs, field, command, importer, config, size, items, remote,
                   nextId, run, cur, pc, externalID, docExists, resp, content,
                   calls, msg, before, start, stats, failures>>

\* createDocument passes its mode to Client.CreateDocument, which fills the
\* form of the upload request
UploadMode ==
    /\ field = NotUploaded
    /\ field' = ModeField(ModeArgument(knobs))
    /\ UNCHANGED <<locked, knobs, built, command, importer, config, size, items, remote,
                   nextId, run, cur, pc, externalID, docExists, resp, content,
                   calls, msg, before, start, stats, failures>>

ModeNext == BuildMode \/ UploadMode

ModeSpec == InitMode /\ [][ModeNext]_vars

\* ------------------------------------------------------------------------
\* Vocabulary of the properties
\* ------------------------------------------------------------------------
TypeOK ==
    /\ command \in {"import", "clear"}
    /\ importer \in Importers \cup {""}
    /\ config \in Configs
    /\ pc \in {"start", "rejected", "loop", "exists", "replace", "delete",
               "content", "create", "pace", "done", "failed", "list", "sweep"}
    /\ size \in 0..MaxItems
    /\ Len(items) <= size
    /\ cur \in 0..Len(items)
    /\ run \in 1..MaxRuns
    /\ failures \in 0..MaxFailures
    /\ knobs \in Knobs \cup FlagKnobs
    /\ locked \subseteq {d.id : d \in start[1]}

\* the entry being processed, or processed last
Item == items[cur]

\* the loop body of the current entry has been left
ItemDone == cur >= 1 /\ pc \in {"loop", "done"}

Ops(op) == {i \in 1..Len(calls) : calls[i].op = op}

NetworkCalls == Ops("list") \cup Ops("delete") \cup Ops("create")

Slept == Ops("sleep") # {}

\* every call made for the current entry succeeded and it was readable
AllSucceeded ==
    /\ \A i \in 1..Len(calls) : calls[i].ok
    /\ msg # "read failed"

\* the documents sharing the external ID of the current entry
Sharing(docs) == Matching(docs, ExternalID(importer, Item), config.partition)

Ids(docs) == {d.id : d \in docs}

\* the existence check of the current entry found a document
FoundExisting ==
    \E i \in Ops("list") :
        calls[i].pageSize = ExistsPageSize /\ calls[i].ok /\ calls[i].ids # << >>

\* ------------------------------------------------------------------------
\* C1: for every importer, an entry whose derived external ID is the empty
\* string causes no network call at all (no list, no delete, no create).
\* ImportWordPress has no identity guard, so this fails for a <post>
\* without <url>.
\* ------------------------------------------------------------------------
C1_EmptyIDNoCalls ==
    (/\ cur >= 1
     /\ ~NotAnItem(importer, Item)
     /\ ExternalID(importer, Item) = EmptyString)
    => NetworkCalls = {}

\* ------------------------------------------------------------------------
\* C2: when the existence check of an entry finds a document and neither
\* force nor replace is set, no create and no delete call is issued for the
\* entry and the remote documents are what they were before the entry.
\* ------------------------------------------------------------------------
C2_ExistingIsSkipped ==
    (cur >= 1 /\ FoundExisting /\ ~config.force /\ ~config.replace)
    => /\ Ops("create") = {}
       /\ Ops("delete") = {}
       /\ remote = before
       /\ pc \in {"loop", "done"}

C2_Witness ==
    /\ ItemDone
    /\ FoundExisting
    /\ ~config.force /\ ~config.replace /\ ~config.dryRun
    /\ msg = "exists"
    /\ Sharing(remote) # {}

\* an entry that passes every guard of its importer when it can be read
Uploadable(imp, item) == Guard(imp, item, TRUE) = "" /\ Prepare(imp, item, TRUE) = ""

DeletedIds == {calls[i].ids[1] : i \in Ops("delete")}

\* ------------------------------------------------------------------------
\* C3: for an entry processed with replace (not dry-run) while N >= 1 remote
\* documents share its external ID, all calls succeeding, exactly N delete
\* calls are issued, one per existing document, all of them before the
\* create call of the entry (of which there is at most one).
\* replaceExistingDocuments lists a single page of ReplacePageSize
\* documents, so this fails for N > ReplacePageSize.
\* ------------------------------------------------------------------------
C3_ReplaceDeletesAll ==
    (/\ ItemDone
     /\ config.replace /\ ~config.dryRun
     /\ ~NotAnItem(importer, Item)
     /\ Sharing(before) # {}
     /\ AllSucceeded)
    => /\ DeletedIds = Ids(Sharing(before))
       /\ Cardinality(Ops("delete")) = Cardinality(Sharing(before))
       /\ Cardinality(Ops("create")) <= 1
       /\ \A d \in Ops("delete") : \A c \in Ops("create") : d < c

\* ------------------------------------------------------------------------
\* C4: after a replace import (not dry-run) in which every call succeeds,
\* exactly one remote document carries the external ID of each entry and it
\* is a newly created one, whatever the number of documents that carried
\* the ID before.  Stated for the entries whose external ID is borne only by
\* entries that pass the guards of the importer.  Fails, like C3, when more
\* than ReplacePageSize documents carried the ID.
\* ------------------------------------------------------------------------
Counted(i) ==
    /\ ~NotAnItem(importer, items[i])
    /\ \A j \in 1..Len(items) :
         (/\ ~NotAnItem(importer, items[j])
          /\ ExternalID(importer, items[j]) = ExternalID(importer, items[i]))
         => Uploadable(importer, items[j])

C4_ReplaceLeavesOneNew ==
    (/\ pc = "done"
     /\ config.replace /\ ~config.dryRun
     /\ stats.failed = 0)
    => \A i \in 1..Len(items) :
         Counted(i) =>
           LET docs == Matching(remote, ExternalID(importer, items[i]),
                                config.partition)
           IN /\ Cardinality(docs) = 1
              /\ Ids(docs) \cap Ids(start[run]) = {}

\* ------------------------------------------------------------------------
\* C5: when a delete call of a replace fails, no create call is issued for
\* the entry and the run goes on: the loop is back at its head, and its next
\* step takes the next entry of the source (or returns when there is none).
\* ------------------------------------------------------------------------
DeleteFailed == command = "import" /\ \E i \in Ops("delete") : ~calls[i].ok

C5_DeleteFailureAbandonsItem ==
    /\ [](DeleteFailed =>
            /\ Ops("create") = {}
            /\ msg = "replace failed"
            /\ pc = "loop" \/ (pc = "done" /\ cur = size))
    /\ [][(DeleteFailed /\ cur < size) => cur' = cur + 1]_vars

C5_Witness ==
    /\ DeleteFailed
    /\ pc = "loop"
    /\ cur < size
    /\ Cardinality(Ops("delete")) = 2

\* ------------------------------------------------------------------------
\* C6 (as stated): for every entry processed with force (no replace, not
\* dry-run) while a remote document shares its external ID: exactly one
\* create call, no delete call, the original is preserved, and afterwards
\* two distinct documents share the external ID.
\* ------------------------------------------------------------------------
Processed == ~NotAnItem(importer, Item) /\ msg # "no id"

C6_ForceDuplicates_Original ==
    (/\ ItemDone
     /\ config.force /\ ~config.replace /\ ~config.dryRun
     /\ Processed
     /\ Sharing(before) # {})
    => /\ Cardinality(Ops("create")) = 1
       /\ Ops("delete") = {}
       /\ before \subseteq remote
       /\ Cardinality(Sharing(remote)) >= 2

\* ------------------------------------------------------------------------
\* C6 (amended): ... when the content of the entry can be read and is not
\* empty after trimming: exactly one create call and no delete call, the
\* original documents are preserved, and when the create call succeeds the
\* external ID is shared by the originals and one new document.
\* ------------------------------------------------------------------------
C6_ForceDuplicates ==
    (/\ ItemDone
     /\ config.force /\ ~config.replace /\ ~config.dryRun
     /\ Processed
     /\ Sharing(before) # {}
     /\ msg # "read failed"
     /\ TrimSpace(Body(importer, Item)) # EmptyString)
    => /\ Cardinality(Ops("create")) = 1
       /\ Ops("delete") = {}
       /\ before \subseteq remote
       /\ \A c \in Ops("create") :
            calls[c].ok =>
              /\ Cardinality(Sharing(remote)) = Cardinality(Sharing(before)) + 1
              /\ Cardinality(Sharing(remote)) >= 2
              /\ calls[c].ids[1] \in Ids(Sharing(remote)) \ Ids(before)

C6_Witness ==
    /\ ItemDone
    /\ config.force /\ ~config.replace /\ ~config.dryRun
    /\ Cardinality(Sharing(before)) = 1
    /\ msg = "saved"
    /\ Cardinality(Sharing(remote)) = 2

\* ------------------------------------------------------------------------
\* C7 (as stated): running the same import twice with force = replace =
\* FALSE leaves exactly one remote document per external ID of the source,
\* and the second run issues no create call.
\* ------------------------------------------------------------------------
DocsOf(i) == Matching(remote, ExternalID(importer, items[i]), config.partition)

SecondRunDone == pc = "done" /\ run = 2 /\ ~config.force /\ ~config.replace

C7_Idempotent_Original ==
    SecondRunDone
    => /\ \A i \in 1..Len(items) :
            ~NotAnItem(importer, items[i]) => Cardinality(DocsOf(i)) = 1
       /\ stats.creates = 0

\* ------------------------------------------------------------------------
\* C7 (amended): ... when the import is not a dry run, every call of both
\* runs succeeds and no external ID of the source was carried by more than
\* one document beforehand: afterwards at most one remote document carries
\* each external ID of the source, exactly one when an entry bearing it
\* passes the guards of the importer; the second run issues one existence
\* check per entry that passes the guards before that check, and no create
\* call.
\* ------------------------------------------------------------------------
ReachesCheck(i) == Guard(importer, items[i], TRUE) = ""

C7_Idempotent ==
    (/\ SecondRunDone
     /\ ~config.dryRun
     /\ failures = 0
     /\ \A i \in 1..Len(items) :
          Cardinality(Matching(start[1], ExternalID(importer, items[i]),
                               config.partition)) <= 1)
    => /\ \A i \in 1..Len(items) :
            ~NotAnItem(importer, items[i]) =>
               /\ Cardinality(DocsOf(i)) <= 1
               /\ Uploadable(importer, items[i]) => Cardinality(DocsOf(i)) = 1
       /\ stats.creates = 0
       /\ stats.deletes = 0
       /\ stats.lists = Cardinality({i \in 1..Len(items) : ReachesCheck(i)})

C7_Witness ==
    /\ SecondRunDone
    /\ ~config.dryRun
    /\ failures = 0
    /\ Len(items) = 2
    /\ Cardinality(remote) = Cardinality(start[1]) + 2
    /\ stats.lists = 2
    /\ stats.creates = 0

\* ------------------------------------------------------------------------
\* C8: in a dry run, whatever force and replace are, no create and no
\* delete call is issued and the remote documents stay what they were
\* before the run.
\* ------------------------------------------------------------------------
C8_DryRunFrame ==
    config.dryRun
    => /\ Ops("create") = {}
       /\ Ops("delete") = {}
       /\ stats.creates = 0
       /\ stats.deletes = 0
       /\ remote = start[1]

C8_Witness ==
    /\ config.dryRun
    /\ config.replace
    /\ pc = "done"
    /\ msg = "would save"
    /\ Cardinality(Sharing(before)) = 2
    /\ Cardinality(Ops("list")) = 2
    /\ remote = start[1]

\* ------------------------------------------------------------------------
\* C9: an entry of a text source (YouTube, WordPress, ReadmeIO) whose body
\* is empty after trimming white space is never sent in a create call.
\* No importer tests the trimmed body it uploads: ImportWordPress has no
\* test at all, ImportYouTube tests the untrimmed length and ImportReadmeIO
\* tests the file before the front matter is removed.
\* ------------------------------------------------------------------------
C9_NoEmptyUpload ==
    importer \in TextImporters
    => \A c \in Ops("create") : TrimSpace(calls[c].data) # EmptyString

ReachedUpload == msg \in {"saved", "import failed", "would save"}

ExistsCheckFailed ==
    \E i \in Ops("list") : calls[i].pageSize = ExistsPageSize /\ ~calls[i].ok

C11_FailOpen ==
    (/\ ItemDone
     /\ ExistsCheckFailed
     /\ ~config.force /\ ~config.replace /\ ~config.dryRun
     /\ msg # "read failed"
     /\ TrimSpace(Body(importer, Item)) # EmptyString)
    => /\ Cardinality(Ops("create")) = 1
       /\ Ops("delete") = {}
       /\ msg \in {"saved", "import failed"}

C11_Witness ==
    /\ ItemDone
    /\ ExistsCheckFailed
    /\ ~config.force /\ ~config.replace /\ ~config.dryRun
    /\ Sharing(before) # {}
    /\ msg = "saved"
    /\ Cardinality(Sharing(remote)) = Cardinality(Sharing(before)) + 1

\* ------------------------------------------------------------------------
\* C12: a failed create call never aborts the run: the importer does not
\* return an error, the loop body is finished (pacing included) and the
\* next step of the loop takes the next entry of the source, or returns
\* when there is none; the importer returns only when every entry has been
\* handled.
\* ------------------------------------------------------------------------
CreateFailed == \E c \in Ops("create") : ~calls[c].ok

C12_CreateFailureGoesOn ==
    /\ [](CreateFailed => /\ pc \in {"pace", "loop", "done"}
                          /\ msg = "import failed")
    /\ [][(CreateFailed /\ pc # "done")
           => \/ pc = "pace" /\ pc' = "loop" /\ cur' = cur
              \/ pc = "loop" /\ cur < size /\ cur' = cur + 1
              \/ pc = "loop" /\ cur = size /\ pc' = "done"]_vars
    /\ [](pc = "done" => cur = size /\ Len(items) = size)

\* the first of two entries failed to upload and the second was uploaded
C12_Witness ==
    /\ pc = "done"
    /\ size = 2
    /\ stats.creates = 2
    /\ stats.failed = 1
    /\ msg = "saved"
    /\ Cardinality(remote) = Cardinality(start[run]) + 1

\* ------------------------------------------------------------------------
\* C13: when both --force and --replace are given, the import command
\* returns the error "--force and --replace flags cannot be used together"
\* before any importer runs: no entry is read and no network call of any
\* kind is issued.
\* ------------------------------------------------------------------------
C13_ForceReplaceRejected ==
    (config.force /\ config.replace)
    => /\ pc \in {"start", "rejected"}
       /\ pc = "rejected" => msg = FlagsError
       /\ cur = 0 /\ items = << >>
       /\ calls = << >>
       /\ stats = NoStats
       /\ remote = start[1]

C13_Witness ==
    /\ config.force /\ config.replace
    /\ pc = "rejected"
    /\ msg = FlagsError
    /\ size = 2
    /\ Cardinality(Matching(remote, <<"a">>, config.partition)) = 2

\* ------------------------------------------------------------------------
\* C14: the clear command run with --dry-run terminates whatever the
\* documents of the partition, and issues no delete call.  Checked under
\* FairSpec.  A dry run deletes nothing, so the next list of the outer loop
\* returns the same page again: the command never returns when the
\* partition holds a document.
\* ------------------------------------------------------------------------
C14_DryRunClearTerminates ==
    (command = "clear" /\ config.dryRun)
    => /\ <>(pc \in {"done", "failed"})
       /\ [](Ops("delete") = {} /\ remote = start[1])

\* ------------------------------------------------------------------------
\* C15: when the clear command (not dry-run) returns without error, no
\* document is left in the partition and the last list call of the
\* partition returned no document; every document that left the service
\* did so by a successful delete call for it, at least one delete call was
\* issued per document of the partition, the documents of other partitions
\* are untouched, and every delete call is for a document returned by the
\* list call of the same pass.
\* ------------------------------------------------------------------------
LastCall == calls[Len(calls)]

C15_ClearEmptiesPartition ==
    /\ []((command = "clear" /\ ~config.dryRun /\ pc = "done")
          => /\ PartitionDocs(remote, config.partition) = {}
             /\ remote = start[1] \ PartitionDocs(start[1], config.partition)
             /\ stats.deletes >= Cardinality(PartitionDocs(start[1],
                                                          config.partition))
             /\ calls # << >>
             /\ LastCall.op = "list" /\ LastCall.ok /\ LastCall.ids = << >>
             /\ LastCall.part = config.partition)
    /\ [](command = "clear"
          => \A d \in Ops("delete") :
                /\ calls[1].op = "list" /\ calls[1].ok
                /\ calls[1].part = config.partition
                /\ \E k \in 1..Len(calls[1].ids) :
                      calls[d].ids = << calls[1].ids[k] >>)
    /\ [][(command = "clear" /\ remote' # remote)
           => /\ calls' # << >>
              /\ calls'[Len(calls')].op = "delete" /\ calls'[Len(calls')].ok
              /\ remote' = DeleteDocument(remote, calls'[Len(calls')].ids[1])
              /\ \E doc \in PartitionDocs(remote, config.partition) :
                    doc.id = calls'[Len(calls')].ids[1]]_vars

\* two documents cleared, one of them at the second attempt
C15_Witness ==
    /\ command = "clear" /\ ~config.dryRun
    /\ pc = "done"
    /\ Cardinality(PartitionDocs(start[1], config.partition)) = 2
    /\ stats.deletes = 3
    /\ stats.failed = 1
    /\ PartitionDocs(remote, config.partition) = {}
    /\ remote # {}

\* ------------------------------------------------------------------------
\* C16: for the files and zip importers with force, replace and dry-run
\* unset, a file entry that can be read and whose external ID no document
\* carries gets a create call if and only if its content is not empty after
\* trimming white space; an empty entry gets no create call, is passed over
\* with a warning (the importer returns no error) and the loop goes on to
\* the other entries.
\* ------------------------------------------------------------------------
C16_CreateIffNonEmpty ==
    (/\ ItemDone
     /\ importer \in {"files", "zip"}
     /\ ~config.force /\ ~config.replace /\ ~config.dryRun
     /\ ~NotAnItem(importer, Item)
     /\ Sharing(before) = {}
     /\ msg # "read failed")
    => IF TrimSpace(Item.content) # EmptyString
       THEN /\ Cardinality(Ops("create")) = 1
            /\ \A c \in Ops("create") : calls[c].data = Item.content
       ELSE /\ Ops("create") = {}
            /\ msg = "empty"
            /\ remote = before
            /\ pc = "loop" \/ (pc = "done" /\ cur = size)

\* an empty entry first, then an entry that is uploaded
C16_Witness ==
    /\ ItemDone
    /\ importer \in {"files", "zip"}
    /\ ~config.force /\ ~config.replace /\ ~config.dryRun
    /\ PartitionDocs(start[run], config.partition) = {}
    /\ cur = 2
    /\ ~NotAnItem(importer, items[1])
    /\ TrimSpace(items[1].content) = EmptyString
    /\ msg = "saved"
    /\ stats.creates = 1
    /\ stats.failed = 0
    /\ Cardinality(remote) = Cardinality(start[run]) + 1

\* ------------------------------------------------------------------------
\* C17: the body uploaded for a YouTube item is its title followed by a
\* blank line (only when the title is not empty), followed by every caption
\* that is a non-empty string, in source order, each terminated by a line
\* break; the create call carries the videoId of the item as external_id.
\* ------------------------------------------------------------------------
KeptCaptions(item) ==
    SelectSeq(item.captions, LAMBDA cap : cap.isString /\ cap.str # EmptyString)

RECURSIVE CaptionLines(_)
CaptionLines(caps) ==
    IF caps = << >> THEN EmptyString
    ELSE CaptionLines(SubSeq(caps, 1, Len(caps) - 1))
         \o caps[Len(caps)].str \o <<"\n">>

C18_NothingSetNoModeField ==
    (knobs = NoKnobs) =>
        /\ built # Unbuilt => built = NilMode
        /\ field # NotUploaded => field = NoField

\* C19: when only mode is set (staticMode, audio and video unset) the mode
\* constructor returns a mode other than "all" verbatim as a bare string,
\* and for "all" the structured result {audio: true, video: "audio_video"}
C19_OnlyModeResult ==
    (/\ built # Unbuilt
     /\ knobs.mode # ""
     /\ knobs.static = "" /\ ~knobs.audio /\ knobs.video = "") =>
        IF knobs.mode = "all"
        THEN built = StructuredMode("", TRUE, "audio_video")
        ELSE built = StringMode(knobs.mode)

\* C19 witness: the constructor has been applied to mode "all" alone
C19_Witness ==
    /\ built # Unbuilt
    /\ knobs = [mode |-> "all", static |-> "", audio |-> FALSE, video |-> ""]

C21_AudioVideoMembers ==
    built.kind = "structured" =>
        /\ built.audio <=> (knobs.audio \/ knobs.mode = "all")
        /\ built.video = IF knobs.video # "" THEN knobs.video
                         ELSE IF knobs.mode = "all" THEN "audio_video"
                         ELSE ""

\* C21 witness: a structured result built from mode "all" with an explicit
\* video value and no audio flag
C21_Witness ==
    /\ built.kind = "structured"
    /\ knobs.mode = "all"
    /\ knobs.video = "video_only"
    /\ ~knobs.audio
    /\ built.audio
    /\ built.video = "video_only"

\* --audio or a non-empty --video given to an import type other than files
\* and zip
ModeFlagMisuse ==
    /\ command = "import"
    /\ importer \notin {"files", "zip"}
    /\ knobs.audio \/ knobs.video # ""

OpenFailed == command = "import" /\ msg \in OpenErrors(importer)

\* C23: if the source cannot be read or parsed the import function returns
\* an error and has issued no network call: no entry is processed and the
\* service is as the run found it
C23_UnreadableSourceNoCalls ==
    OpenFailed =>
        /\ pc = "failed"
        /\ cur = 0
        /\ calls = << >>
        /\ stats = NoStats
        /\ remote = start[run]

\* C23 witness: a source of two entries whose JSON does not parse, on a
\* service that holds a document
C23_Witness ==
    /\ OpenFailed
    /\ importer = "youtube"
    /\ msg = "failed to parse JSON"
    /\ size = 2
    /\ remote # {}
    /\ pc = "failed"

\* the place of a network call in the loop body: the list calls, then the
\* delete calls, then the create call
Rank(call) ==
    CASE call.op = "list" -> 1
      [] call.op = "delete" -> 2
      [] call.op = "create" -> 3

\* C24: entries are processed one after another in source order: the
\* network calls made since the loop took the entry at position cur are all
\* made for that entry, and among them the existence-check list call comes
\* first, every delete call comes before the create call, and there is at
\* most one create call
C24_CallOrder ==
    (command = "import" /\ calls # << >> /\ calls[1].op # "sleep") =>
        /\ cur \in 1..Len(items)
        /\ calls[1].op = "list" /\ calls[1].pageSize = ExistsPageSize
        /\ externalID = ExternalID(importer, Item)
        /\ \A i \in 1..Len(calls) :
              calls[i].op # "sleep" =>
                /\ calls[i].ext = externalID
                /\ i < Len(calls) /\ calls[i + 1].op # "sleep" =>
                      /\ Rank(calls[i]) <= Rank(calls[i + 1])
                      /\ calls[i].op # "create"

\* C24 witness: the second entry of a source has been replaced: its
\* existence check, a delete and its create are in the log, in this order
C24_Witness ==
    /\ command = "import"
    /\ cur = 2
    /\ \E i \in Ops("list"), j \in Ops("delete"), k \in Ops("create") :
          i < j /\ j < k

\* C25: the external_id written by the create call of an entry is the one
\* its existence-check list call filters on, the list calls and the create
\* call carry the configured partition, and so the document created is what
\* an existence check of the same entry in that partition then finds
C25_SameKeyAndPartition ==
    command = "import" =>
        \A k \in Ops("create") :
            /\ calls[1].op = "list"
            /\ calls[1].pageSize = ExistsPageSize
            /\ calls[k].ext = calls[1].ext
            /\ \A i \in Ops("list") \cup {k} : calls[i].part = config.partition
            /\ calls[k].ok =>
                  /\ \E d \in remote : /\ d.id = calls[k].ids[1]
                                        /\ d.ext = calls[1].ext
                                        /\ d.part = calls[1].part
                  /\ HasDocuments(ListDocuments(remote, calls[1].ext,
                                                calls[1].part, ExistsPageSize))

\* C25 witness: an entry with no document on the service has been created
C25_Witness ==
    /\ command = "import"
    /\ \E k \in Ops("create") : calls[k].ok
    /\ Matching(before, externalID, config.partition) = {}

\* C26: in a replace import that is not a dry run, an entry whose existing
\* documents were deleted, every delete succeeding, gets a create call
\* before the loop leaves it: it is never left with its old documents
\* deleted and no new document attempted
C26_DeleteThenCreate ==
    (/\ command = "import"
     /\ config.replace /\ ~config.dryRun
     /\ ItemDone
     /\ Ops("delete") # {}
     /\ \A i \in Ops("delete") : calls[i].ok) =>
        Ops("create") # {}

\* C27: an import without replace never issues a delete call, whatever the
\* source, the service and the failures, and the service never loses a
\* document: it keeps what it held at the start of the run and at the start
\* of the entry
C27_NoReplaceNoDelete ==
    (command = "import" /\ ~config.replace) =>
        /\ Ops("delete") = {}
        /\ stats.deletes = 0
        /\ start[run] \subseteq before
        /\ before \subseteq remote
        /\ Cardinality(remote) >= Cardinality(start[1])

\* C27 witness: a forced import has created a document for an entry that
\* had one, after a failed call
C27_Witness ==
    /\ command = "import"
    /\ ~config.replace
    /\ config.force
    /\ \E k \in Ops("create") : calls[k].ok
    /\ Sharing(before) # {}
    /\ failures > 0

\* the list call of replaceExistingDocuments has been made for the entry
ReplaceListed == \E i \in Ops("list") : calls[i].pageSize = ReplacePageSize

ReplaceListFailed ==
    \E i \in Ops("list") : calls[i].pageSize = ReplacePageSize /\ ~calls[i].ok

\* C29: with replace set, when the existence check finds a document and the
\* list call that enumerates the documents to delete then fails, the entry
\* is abandoned: no delete call and no create call is issued for it, the
\* service is untouched, and the loop is back at its head (or has returned
\* after the last entry)
C29_ReplaceListFailureAbandonsItem ==
    (command = "import" /\ ReplaceListFailed) =>
        /\ config.replace
        /\ docExists
        /\ Cardinality(Ops("list")) = 2
        /\ Ops("delete") = {}
        /\ Ops("create") = {}
        /\ remote = before
        /\ msg = "replace failed"
        /\ pc = "loop" \/ (pc = "done" /\ cur = size)

\* C29 witness: the first of two entries has been abandoned on a failed
\* replace list and the loop is about to take the second
C29_Witness ==
    /\ command = "import"
    /\ ReplaceListFailed
    /\ Sharing(before) # {}
    /\ pc = "loop"
    /\ cur = 1
    /\ size = 2

\* C30: the clear command, not in a dry run, terminates on every finite
\* partition even when delete calls fail: it reaches its end instead of
\* listing and retrying the same document for ever.  Checked under
\* FairSpec.
C30_ClearTerminates ==
    (command = "clear" /\ ~config.dryRun) => <>(pc \in {"done", "failed"})
====
